---- MODULE Spec2Model ----
(***************************************************************************)
(* A model of Rappi_products_extraction.py: the run of ScraperRappiProducts *)
(* (login, extract_data with its nearest, category and retry phases, the    *)
(* extraction tasks on the thread pool, process_data, save_data,            *)
(* save_metadata) and of the pandas normalization of process_data.          *)
(*                                                                          *)
(* Strings are TLA+ strings, read character by character with SubSeq.       *)
(* A cell of a product row or of the DataFrame is a record [t, s, n]:       *)
(* t is the Python type ("null" for None/NaN, "str", "num", "bool"), s the  *)
(* text of a str, n the value of a num (a price, in thousandths) or of a    *)
(* bool (0/1).                                                              *)
(***************************************************************************)
EXTENDS Integers, Sequences, FiniteSets, Bags, TLC

\* ------------------------------------------------------------------ bounds
\* Longest product list the normalization is checked on (SpecNorm).
MaxRows == 3
\* Most successful clicks on the load-more button in the nearest phase.
MaxClicks == 1
\* Threads of the pool THREAD (min(32, cpu_count + 4) in CPython).
MaxWorkers == 2

\* ------------------------------------------------------------------ cells
Null == [t |-> "null", s |-> "", n |-> 0]
Str(x) == [t |-> "str", s |-> x, n |-> 0]
Num(m) == [t |-> "num", s |-> "", n |-> m]
Bool(b) == [t |-> "bool", s |-> "", n |-> IF b THEN 1 ELSE 0]

\* ---------------------------------------------------------------- strings
Ch(s, i) == SubSeq(s, i, i)

\* The characters the model's strings use, in code point order.
Alphabet == " ,-.0123456789:;ABCDEFGHIJKLMNOPQRSTUVWXYZabcdefghijklmnopqrstuvwxyz"
Ord(c) == CHOOSE i \in 1..Len(Alphabet) : Ch(Alphabet, i) = c

\* Python's str < str: lexicographic on code points.
RECURSIVE StrLess(_, _)
StrLess(a, b) ==
  IF b = "" THEN FALSE
  ELSE IF a = "" THEN TRUE
  ELSE IF Ch(a, 1) = Ch(b, 1)
       THEN StrLess(SubSeq(a, 2, Len(a)), SubSeq(b, 2, Len(b)))
       ELSE Ord(Ch(a, 1)) < Ord(Ch(b, 1))

\* re.sub of one literal character by a string, as Series.replace(regex=True)
\* does for "," -> ";", "\." -> "," and ";" -> ".".
RECURSIVE ReplaceChar(_, _, _)
ReplaceChar(s, from, to) ==
  IF s = "" THEN ""
  ELSE (IF Ch(s, 1) = from THEN to ELSE Ch(s, 1))
       \o ReplaceChar(SubSeq(s, 2, Len(s)), from, to)

\* re.sub(" -.+", "", s): the leftmost " -" followed by at least one character
\* is removed with everything after it (no newline in a cell).
SuffixStarts(s) == {i \in 1..Len(s) : Len(s) >= i + 2 /\ SubSeq(s, i, i + 1) = " -"}
Min(S) == CHOOSE x \in S : \A y \in S : x <= y
StripSuffix(s) ==
  IF SuffixStarts(s) = {} THEN s ELSE SubSeq(s, 1, Min(SuffixStarts(s)) - 1)

\* re.sub("^Abre.+", "Restaurante cerrado", s)
RewriteAbre(s) ==
  IF Len(s) >= 5 /\ SubSeq(s, 1, 4) = "Abre" THEN "Restaurante cerrado" ELSE s

\* ---------------------------------------------------------------- numbers
DigitStr(d) == Ch("0123456789", d + 1)
IsDigit(c) == \E d \in 0..9 : DigitStr(d) = c
DigitVal(c) == CHOOSE d \in 0..9 : DigitStr(d) = c

RECURSIVE IntStr(_)
IntStr(k) == IF k < 10 THEN DigitStr(k) ELSE IntStr(k \div 10) \o DigitStr(k % 10)

RECURSIVE StrToNat(_)
StrToNat(s) ==
  IF s = "" THEN 0
  ELSE 10 * StrToNat(SubSeq(s, 1, Len(s) - 1)) + DigitVal(Ch(s, Len(s)))

\* float(s) of astype(float) on an object column: digits with at most one ".",
\* or "nan"; anything else (a "," of the regional format) raises ValueError.
Dots(s) == {i \in 1..Len(s) : Ch(s, i) = "."}
ParseOK(s) ==
  \/ s = "nan"
  \/ /\ \A i \in 1..Len(s) : IsDigit(Ch(s, i)) \/ Ch(s, i) = "."
     /\ Cardinality(Dots(s)) <= 1
     /\ \E i \in 1..Len(s) : IsDigit(Ch(s, i))
\* The parsed value in thousandths (the model's prices have at most 3 decimals).
ParseMills(s) ==
  IF Dots(s) = {} THEN 1000 * StrToNat(s)
  ELSE LET p == Min(Dots(s))
           f == SubSeq(s, p + 1, Len(s))
           f3 == SubSeq(f \o "000", 1, 3)
       IN 1000 * StrToNat(SubSeq(s, 1, p - 1)) + StrToNat(f3)

\* round(x, 2) on a value in thousandths, half to even; the result is again
\* in thousandths.
Round2(m) ==
  LET q == m \div 10
      r == m % 10
  IN 10 * (IF r > 5 \/ (r = 5 /\ q % 2 = 1) THEN q + 1 ELSE q)

\* "{:,.2f}".format(x): comma every three digits, two decimals.
RECURSIVE GroupThousands(_)
GroupThousands(k) ==
  IF k < 1000 THEN IntStr(k)
  ELSE GroupThousands(k \div 1000) \o ","
       \o DigitStr((k % 1000) \div 100) \o DigitStr((k % 100) \div 10) \o DigitStr(k % 10)
Format2f(m) ==
  LET c == Round2(m) \div 10
  IN GroupThousands(c \div 100) \o "." \o DigitStr((c % 100) \div 10) \o DigitStr(c % 10)

\* .replace({",": ";", "\.": ","}, regex=True).replace({";": "."}, regex=True)
Regional(s) == ReplaceChar(ReplaceChar(ReplaceChar(s, ",", ";"), ".", ","), ";", ".")

\* -------------------------------------------------------------- DataFrame
\* CURRENT_DATE.strftime("%Y-%m-%d"): one date per run.
Fecha == "2026-11-04"

RowCell(r, k) == IF k <= Len(r) THEN r[k] ELSE Null

\* pd.DataFrame(self._products, columns=[...]): a list of lists, one row each;
\* a shorter row is padded with None, and the row keeps its position as its
\* index label (idx) through sort_values and drop_duplicates.
DataFrame(products) ==
  [i \in 1..Len(products) |->
     [idx |-> i - 1,
      Popular |-> RowCell(products[i], 1),
      Producto |-> RowCell(products[i], 2),
      Descripcion |-> RowCell(products[i], 3),
      PrecioCon |-> RowCell(products[i], 4),
      PrecioSin |-> RowCell(products[i], 5),
      Restaurante |-> RowCell(products[i], 6),
      Disponible |-> RowCell(products[i], 7),
      Categoria |-> RowCell(products[i], 8),
      Fecha |-> Null]]

\* The constructor raises ("8 columns passed, passed data had 0 columns") when
\* the list is not empty and no row has a field.
DataFrameRaises(products) ==
  products # <<>> /\ \A i \in 1..Len(products) : Len(products[i]) = 0

\* self._dataset["Fecha"] = ...
SetFecha(ds) == [i \in 1..Len(ds) |-> [ds[i] EXCEPT !.Fecha = Str(Fecha)]]

\* One sort key: nulls last whatever the direction (na_position="last").
ValLess(x, y) == IF x.t = "str" THEN StrLess(x.s, y.s) ELSE x.n < y.n
KeyCmp(x, y, ascending) ==
  IF x.t = "null" /\ y.t = "null" THEN 0
  ELSE IF x.t = "null" THEN 1
  ELSE IF y.t = "null" THEN -1
  ELSE IF x = y THEN 0
  ELSE IF ValLess(x, y) = ascending THEN -1 ELSE 1

\* The direction of the fourth sort key, Popular: ascending=[.., .., .., False].
PopularAscendingAlso == TRUE
PopularAscending == FALSE

\* sort_values(["Restaurante", "Producto", "Descripcion", "Popular"],
\*             ascending=[True, True, True, False])
RowBefore(a, b) ==
  LET c1 == KeyCmp(a.Restaurante, b.Restaurante, TRUE)
      c2 == KeyCmp(a.Producto, b.Producto, TRUE)
      c3 == KeyCmp(a.Descripcion, b.Descripcion, TRUE)
      c4 == KeyCmp(a.Popular, b.Popular, PopularAscending)
  IN IF c1 # 0 THEN c1 < 0
     ELSE IF c2 # 0 THEN c2 < 0
     ELSE IF c3 # 0 THEN c3 < 0
     ELSE c4 < 0

\* The sort is stable: a row goes before the first row it sorts before.
InsertSorted(sorted, x) ==
  LET later == {i \in 1..Len(sorted) : RowBefore(x, sorted[i])}
      at == IF later = {} THEN Len(sorted) + 1 ELSE Min(later)
  IN SubSeq(sorted, 1, at - 1) \o <<x>> \o SubSeq(sorted, at, Len(sorted))

RECURSIVE SortValues(_)
SortValues(ds) ==
  IF ds = <<>> THEN <<>>
  ELSE InsertSorted(SortValues(SubSeq(ds, 1, Len(ds) - 1)), ds[Len(ds)])

\* The subset of drop_duplicates: nulls of a key column are equal to each other.
DupKey(r) == <<r.Restaurante, r.Producto, r.Descripcion>>

RECURSIVE KeepRows(_, _)
KeepRows(ds, keep) ==
  IF ds = <<>> THEN <<>>
  ELSE (IF keep[1] THEN <<ds[1]>> ELSE <<>>)
       \o KeepRows(SubSeq(ds, 2, Len(ds)), SubSeq(keep, 2, Len(keep)))

\* drop_duplicates(["Restaurante", "Producto", "Descripcion"], keep="first")
DropDuplicates(ds) ==
  KeepRows(ds, [i \in 1..Len(ds) |->
                  \A j \in 1..(i - 1) : DupKey(ds[j]) # DupKey(ds[i])])

\* replace({"": None}) on every column
EmptyToNone(c) == IF c = Str("") THEN Null ELSE c
ReplaceEmpty(ds) ==
  [i \in 1..Len(ds) |->
     [idx |-> ds[i].idx,
      Popular |-> EmptyToNone(ds[i].Popular),
      Producto |-> EmptyToNone(ds[i].Producto),
      Descripcion |-> EmptyToNone(ds[i].Descripcion),
      PrecioCon |-> EmptyToNone(ds[i].PrecioCon),
      PrecioSin |-> EmptyToNone(ds[i].PrecioSin),
      Restaurante |-> EmptyToNone(ds[i].Restaurante),
      Disponible |-> EmptyToNone(ds[i].Disponible),
      Categoria |-> EmptyToNone(ds[i].Categoria),
      Fecha |-> EmptyToNone(ds[i].Fecha)]]

\* astype({"Precio con descuento": float, "Precio sin descuento": float,
\*         "Popular": str}): float() of a text that is no number raises.
FloatRaises(c) == c.t = "str" /\ ~ParseOK(c.s)
AstypeRaises(ds) ==
  \E i \in 1..Len(ds) : FloatRaises(ds[i].PrecioCon) \/ FloatRaises(ds[i].PrecioSin)
ToFloat(c) ==
  CASE c.t = "null" -> Null
    [] c.t = "num" -> c
    [] c.t = "bool" -> Num(1000 * c.n)
    [] c.t = "str" -> IF c.s = "nan" THEN Null ELSE Num(ParseMills(c.s))
ToStr(c) ==
  CASE c.t = "null" -> Str("None")
    [] c.t = "str" -> c
    [] c.t = "bool" -> Str(IF c.n = 1 THEN "True" ELSE "False")
Astype(ds) ==
  [i \in 1..Len(ds) |->
     [ds[i] EXCEPT !.PrecioCon = ToFloat(@), !.PrecioSin = ToFloat(@),
                   !.Popular = ToStr(@)]]

\* ["Precio con descuento"].apply(lambda x: round(x, 2)), then
\* .loc[rows where the two prices are equal, "Precio con descuento"] = None
RoundCell(c) == IF c.t = "num" THEN Num(Round2(c.n)) ELSE c
SamePrice(a, b) == a.t = "num" /\ b.t = "num" /\ a.n = b.n
RoundAndNullOut(ds) ==
  [i \in 1..Len(ds) |->
     [ds[i] EXCEPT !.PrecioCon =
        IF SamePrice(RoundCell(@), ds[i].PrecioSin) THEN Null ELSE RoundCell(@)]]

\* applymap("{:,.2f}".format) and the swap of the separators
FormatCell(c) == IF c.t = "num" THEN Str(Regional(Format2f(c.n))) ELSE Str(Regional("nan"))
FormatPrices(ds) ==
  [i \in 1..Len(ds) |->
     [ds[i] EXCEPT !.PrecioCon = FormatCell(@), !.PrecioSin = FormatCell(@)]]

\* The regex and value replacements of Disponible, Categoria, Restaurante, Popular
OnStr(c, x) == IF c.t = "str" THEN Str(x) ELSE c
PopularLabel(c) ==
  IF c = Str("True") THEN Str("popular") ELSE IF c = Str("False") THEN Str("") ELSE c
CleanText(ds) ==
  [i \in 1..Len(ds) |->
     [ds[i] EXCEPT !.Disponible = OnStr(@, RewriteAbre(@.s)),
                   !.Categoria = OnStr(@, StripSuffix(@.s)),
                   !.Restaurante = OnStr(@, StripSuffix(@.s)),
                   !.Popular = PopularLabel(@)]]

\* process_data as a function of (self._dataset, self._products): what the two
\* hold when it returns. An exception leaves them as the statement that raised
\* found them: the try block is left and only logged.
ProcessData(dataset, products) ==
  IF DataFrameRaises(products)
  THEN [dataset |-> dataset, products |-> products]
  ELSE LET d == ReplaceEmpty(DropDuplicates(SortValues(SetFecha(DataFrame(products)))))
       IN IF AstypeRaises(d)
          THEN [dataset |-> d, products |-> <<>>]
          ELSE [dataset |-> CleanText(FormatPrices(RoundAndNullOut(Astype(d)))),
                products |-> <<>>]

\* ------------------------------------------------------------ the web site
\* What the browser shows: a restaurant element of a listing (its href, its
\* aria-label, the text of its status paragraph, "" when it has none), the
\* listing of the nearest restaurants, of which PageSize more are rendered by
\* each click on the load-more button, and the listing of each category.
Element(href, label, status) == [href |-> href, label |-> label, status |-> status]
KFC == Element("https://www.rappi.com.pe/restaurantes/1-kfc", "KFC - Centro", "")
Bembos == Element("https://www.rappi.com.pe/restaurantes/2-bembos", "Bembos", "Abre a las 18:00")
KFCAgain == Element("https://www.rappi.com.pe/restaurantes/1-kfc", "KFC - Centro", "Abre a las 12:00")
Norkys == Element("https://www.rappi.com.pe/restaurantes/3-norkys", "Norkys", "")

NearestList == <<KFC, KFCAgain, Bembos>>
PageSize == 1
Categories == << <<KFC, Norkys>>, <<Norkys, Bembos, Norkys>> >>

\* re.search("restaurantes/(.*)", restaurant_link).group(1)
Marker == "restaurantes/"
MarkerAt(link) ==
  {i \in 1..(Len(link) - Len(Marker) + 1) :
     SubSeq(link, i, i + Len(Marker) - 1) = Marker}
LinkSuffix(link) == SubSeq(link, Min(MarkerAt(link)) + Len(Marker), Len(link))

\* The decoded response of a restaurant: brandName, categories and the products
\* of its corridors (isPopular, name, description, priceNumber, realPrice).
BrandName(link) ==
  CASE LinkSuffix(link) = "1-kfc" -> Str("KFC - Centro")
    [] LinkSuffix(link) = "2-bembos" -> Str("Bembos")
    [] LinkSuffix(link) = "3-norkys" -> Str("Norkys")
BrandCategories(link) ==
  CASE LinkSuffix(link) = "1-kfc" -> Str("Pollo - Broaster")
    [] LinkSuffix(link) = "2-bembos" -> Str("Hamburguesas")
    [] LinkSuffix(link) = "3-norkys" -> Null
Corridors(link) ==
  CASE LinkSuffix(link) = "1-kfc" ->
         << <<Bool(TRUE), Str("Mega"), Str("8 piezas"), Num(39900), Num(45900)>>,
            <<Bool(FALSE), Str("Mega"), Str("8 piezas"), Num(39900), Num(45900)>> >>
    [] LinkSuffix(link) = "2-bembos" ->
         << <<Bool(FALSE), Str("Royal"), Str(""), Num(18904), Num(18900)>> >>
    [] LinkSuffix(link) = "3-norkys" ->
         << <<Bool(FALSE), Str("Brasa"), Null, Num(62000), Num(62000)>> >>

\* The rows extract_products returns (lines 340-353): one per product.
Flatten(link, status) ==
  [i \in 1..Len(Corridors(link)) |->
     Corridors(link)[i] \o <<BrandName(link), Str(status), BrandCategories(link)>>]

\* The product elements of a restaurant's page, as the DOM fallback reads them:
\* the text of the price block split on "S/ ".
DomProducts(link) ==
  CASE LinkSuffix(link) = "1-kfc" -> << <<Bool(FALSE), Str("Mega"), Str("8 piezas"), Str(""), Str("45.90")>> >>
    [] LinkSuffix(link) = "2-bembos" -> << <<Bool(TRUE), Str("Royal"), Str(""), Str("17.90"), Str("18.90")>> >>
    [] LinkSuffix(link) = "3-norkys" -> << <<Bool(FALSE), Str("Brasa"), Str(""), Str(""), Str("62.00")>> >>
DomCategory(link) ==
  CASE LinkSuffix(link) = "1-kfc" -> Str("Pollo")
    [] LinkSuffix(link) = "2-bembos" -> Null
    [] LinkSuffix(link) = "3-norkys" -> Str("Pollo a la brasa")

\* ------------------------------------------------------------------ state
VARIABLES
  pc,            \* where main/run/extract_data stands
  metadata,      \* Metadata: _num_errors, _quantity, and how often
                 \* set_attributes_values has set the end time
  files,         \* what was written: the data files and the metadata rows
  _products,     \* the record accumulator
  _restaurants,  \* the links of the restaurants gone through
  _links_to_go,  \* the restaurants to retry (a list: a bag until line 477)
  _dataset,      \* the DataFrame
  requests,      \* self._driver.requests, the captured requests (by path)
  shown,         \* how many entries of the nearest listing are rendered
  clicks,        \* successful clicks on the load-more button
  no_error, start, end, button,  \* the locals of the nearest phase
  cat,           \* the position of the loop over the categories
  restaurants,   \* the local list of restaurant elements
  retry,         \* the entries the retry loop has still to go through (a bag)
  tasks,         \* the futures of the current batch, each with its thread's locals
  consumed,      \* the futures the loop over futures.wait(...).done has been through
  dispatched,    \* history: (phase, link) of every extraction task submitted
  failures,      \* history: how many extraction tasks entered their except block
  log,           \* history: the driver's clears, navigations and batches, in
                 \* order, from the batch before the last one on
  covered,       \* history: the positions the batches of the nearest phase covered
  retried,       \* history: the entries scrap_restaurante was called with, in order
  processed      \* history: the links whose task returned its decoded products

vars == <<pc, metadata, files, _products, _restaurants, _links_to_go, _dataset,
          requests, shown, clicks, no_error, start, end, button, cat,
          restaurants, retry, tasks, consumed, dispatched, failures, log,
          covered, retried, processed>>

dataVars == <<_products, _restaurants, _links_to_go, _dataset>>
nearVars == <<no_error, start, end, button>>
histVars == <<dispatched, failures, log, covered, retried, processed>>

\* __init__ of Metadata and of ScraperRappiProducts
Init ==
  /\ pc = "login"
  /\ metadata = [num_errors |-> 0, quantity |-> 0, finalized |-> 0]
  /\ files = [data |-> <<>>, report |-> <<>>]
  /\ _products = <<>>
  /\ _restaurants = {}
  /\ _links_to_go = EmptyBag
  /\ _dataset = <<>>
  /\ requests = {}
  /\ shown = 0
  /\ clicks = 0
  /\ no_error = TRUE
  /\ start = 0
  /\ end = 0
  /\ button = "unbound"
  /\ cat = 0
  /\ restaurants = <<>>
  /\ retry = EmptyBag
  /\ tasks = <<>>
  /\ consumed = {}
  /\ dispatched = {}
  /\ failures = 0
  /\ log = <<>>
  /\ covered = {}
  /\ retried = <<>>
  /\ processed = {}

\* ------------------------------------------------------------- the pool
\* THREAD.submit: a future waits in the pool's queue until a thread is free.
ExtractTask(e) ==
  [kind |-> "extract", pc |-> "queued", elem |-> e, row |-> <<>>,
   link_bound |-> FALSE, status_bound |-> FALSE, status |-> "", tmp |-> 0,
   result |-> <<>>]
\* scrap_product's arguments: row is what it reads when nothing fails.
ProductTask(product, rest, status, category) ==
  [kind |-> "product", pc |-> "queued", elem |-> Element("", rest, status),
   row |-> product \o <<Str(rest), Str(status), category>>,
   link_bound |-> FALSE, status_bound |-> FALSE, status |-> "", tmp |-> 0,
   result |-> <<>>]

Finished(t) == tasks[t].pc \in {"returned", "raised"}
Running == {t \in DOMAIN tasks : tasks[t].pc \in {"wait", "hread", "hwrite", "scrap"}}
Queued == {t \in DOMAIN tasks : tasks[t].pc = "queued"}
\* The pool's work queue is first in, first out, and has MaxWorkers threads.
MayStartUnbounded(t) == t \in Queued
MayStart(t) ==
  /\ t \in Queued
  /\ \A u \in Queued : t <= u
  /\ Cardinality(Running) < MaxWorkers
\* futures.wait(fs) returns when every future of fs is done.
AllDoneNotAwaited == TRUE
AllDone == \A t \in DOMAIN tasks : Finished(t)

\* What the driver thread does to the browser, in the order of the code:
\* del self._driver.requests, a navigation (driver.get, a click that went
\* through), and the submission of a batch (ix: the positions of the nearest
\* listing it covers, or its category or retry number and its size).
Ev(e, ix) == [e |-> e, ix |-> ix]
Clear == Ev("clear", <<>>)
Nav == Ev("nav", <<>>)
IsBatch(ev) == ev.e \in {"near_batch", "cat_batch", "retry_batch"}
\* The log with the events evs added; when they end in a batch, what came
\* before the previous batch is dropped.
LastBatch(l) ==
  IF \E i \in 1..Len(l) : IsBatch(l[i])
  THEN CHOOSE i \in 1..Len(l) :
         IsBatch(l[i]) /\ \A j \in (i + 1)..Len(l) : ~IsBatch(l[j])
  ELSE 1
Push(l, evs) ==
  IF Len(evs) > 0 /\ IsBatch(evs[Len(evs)])
  THEN SubSeq(l, LastBatch(l), Len(l)) \o evs
  ELSE l \o evs

\* ------------------------------------------------- extract_products (303-362)
\* Lines 310-322: scroll to the element, read its status (a missing paragraph
\* is caught and defaults), read its link and append it to _restaurants. The
\* hover makes the page request the restaurant's data, which the capture may
\* or may not hold by the time of the wait. A failure of the scroll or of the
\* href read goes to the except block with the locals not yet assigned.
TaskStart(t) ==
  /\ pc \in {"near_join", "cat_join"}
  /\ MayStart(t)
  /\ tasks[t].kind = "extract"
  /\ \E outcome \in {"scroll_fails", "href_fails", "captured", "not_captured"} :
       LET e == tasks[t].elem
           st == IF e.status = "" THEN "Restaurante abierto" ELSE e.status
           ok == outcome \in {"captured", "not_captured"}
       IN /\ tasks' = [tasks EXCEPT ![t] =
                         [@ EXCEPT !.pc = IF ok THEN "wait" ELSE "hread",
                                   !.status_bound = outcome # "scroll_fails",
                                   !.status = IF outcome # "scroll_fails" THEN st ELSE "",
                                   !.link_bound = ok]]
          /\ _restaurants' = IF ok THEN _restaurants \cup {e.href}
                             ELSE _restaurants
          /\ requests' = IF outcome = "captured"
                         THEN requests \cup {LinkSuffix(e.href)} ELSE requests
  /\ UNCHANGED <<pc, metadata, files, _products, _links_to_go, _dataset, shown,
                 clicks, nearVars, cat, restaurants, retry, consumed, histVars>>

\* Lines 323-353: wait_for_request (3 s), decode, json.loads, flatten. Without a
\* captured request the wait times out; with one, the decoding may still fail.
TaskWait(t) ==
  /\ t \in DOMAIN tasks
  /\ tasks[t].pc = "wait"
  /\ \E decoded \in BOOLEAN :
       LET e == tasks[t].elem
           ok == decoded /\ LinkSuffix(e.href) \in requests
       IN /\ tasks' = [tasks EXCEPT ![t] =
                         [@ EXCEPT !.pc = IF ok THEN "returned" ELSE "hread",
                                   !.result = IF ok THEN Flatten(e.href, tasks[t].status)
                                              ELSE <<>>]]
          /\ processed' = IF ok THEN processed \cup {e.href} ELSE processed
  /\ UNCHANGED <<pc, metadata, files, dataVars, requests, shown, clicks,
                 nearVars, cat, restaurants, retry, consumed, dispatched,
                 failures, log, retried, covered>>

\* Line 355, first half: self._metadata.num_errors (the property's getter).
HandlerRead(t) ==
  /\ t \in DOMAIN tasks
  /\ tasks[t].pc = "hread"
  /\ tasks' = [tasks EXCEPT ![t] = [@ EXCEPT !.pc = "hwrite",
                                             !.tmp = metadata.num_errors]]
  /\ failures' = failures + 1
  /\ UNCHANGED <<pc, metadata, files, dataVars, requests, shown, clicks,
                 nearVars, cat, restaurants, retry, consumed, dispatched, log,
                 retried, processed, covered>>

\* Line 355, second half (the setter), and lines 356-362: the entry is built
\* from restaurant_link and restaurant_status, which raises UnboundLocalError
\* when the try block failed before assigning them.
HandlerWrite(t) ==
  /\ t \in DOMAIN tasks
  /\ tasks[t].pc = "hwrite"
  /\ metadata' = [metadata EXCEPT !.num_errors = tasks[t].tmp + 1]
  /\ LET e == tasks[t].elem
         bound == tasks[t].link_bound /\ tasks[t].status_bound
     IN /\ tasks' = [tasks EXCEPT ![t] =
                       [@ EXCEPT !.pc = IF bound THEN "returned" ELSE "raised"]]
        /\ _links_to_go' =
             IF bound
             THEN _links_to_go (+) SetToBag({<<e.label, e.href, tasks[t].status>>})
             ELSE _links_to_go
  /\ UNCHANGED <<pc, files, _products, _restaurants, _dataset, requests, shown,
                 clicks, nearVars, cat, restaurants, retry, consumed, histVars>>

\* --------------------------------------------------- scrap_product (210-267)
\* A pool thread takes the task from the queue.
ProductStart(t) ==
  /\ pc = "retry_join"
  /\ MayStart(t)
  /\ tasks[t].kind = "product"
  /\ tasks' = [tasks EXCEPT ![t] = [@ EXCEPT !.pc = "scrap"]]
  /\ UNCHANGED <<pc, metadata, files, dataVars, requests, shown, clicks,
                 nearVars, cat, restaurants, retry, consumed, histVars>>

\* One product element read: the 8 fields, or [] when a read fails.
ScrapProduct(t) ==
  /\ t \in DOMAIN tasks
  /\ tasks[t].pc = "scrap"
  /\ \E ok \in BOOLEAN :
       tasks' = [tasks EXCEPT ![t] =
                   [@ EXCEPT !.pc = "returned",
                             !.result = IF ok THEN tasks[t].row ELSE <<>>]]
  /\ UNCHANGED <<pc, metadata, files, dataVars, requests, shown, clicks,
                 nearVars, cat, restaurants, retry, consumed, histVars>>

\* ------------------------------------------------------ login (162-208)
\* Any of its element lookups, clicks and waits may raise; nothing in run
\* catches it, so it ends in main's except block.
login ==
  /\ pc = "login"
  /\ \E ok \in BOOLEAN : pc' = IF ok THEN "extract_data" ELSE "aborted"
  /\ UNCHANGED <<metadata, files, dataVars, requests, shown, clicks, nearVars,
                 cat, restaurants, retry, tasks, consumed, histVars>>

\* ------------------------------------------------- extract_data (364-483)
Rendered(k) == IF k < Len(NearestList) THEN k ELSE Len(NearestList)

\* Lines 367-372: load the listing (which may render no restaurant at all),
\* clear the capture, no_error, start.
ExtractOpen ==
  /\ pc = "extract_data"
  /\ \E ok \in BOOLEAN, listed \in BOOLEAN :
       IF ok
       THEN /\ pc' = "near_button"
            /\ shown' = IF listed THEN Rendered(PageSize) ELSE 0
            /\ requests' = {}
            /\ no_error' = TRUE
            /\ start' = 0
            /\ log' = Push(log, <<Nav, Clear>>)
       ELSE /\ pc' = "aborted"
            /\ UNCHANGED <<shown, requests, no_error, start, log>>
  /\ UNCHANGED <<metadata, files, dataVars, clicks, end, button, cat,
                 restaurants, retry, tasks, consumed, dispatched, failures,
                 retried, processed, covered>>

\* Lines 375-385: wait for the load-more button; not found sets no_error and
\* leaves button as it was (unassigned in the first iteration).
\* Where the iteration goes after the wait for the button: on to the wait for
\* the restaurants (line 388) also when the button was not found.
AfterButtonBreak(found) == IF found THEN "near_list" ELSE "categories"
AfterButton(found) == "near_list"

NearButton ==
  /\ pc = "near_button"
  /\ \E found \in BOOLEAN :
       /\ button' = IF found THEN "bound" ELSE button
       /\ no_error' = IF found THEN no_error ELSE FALSE
       /\ pc' = AfterButton(found)
  /\ UNCHANGED <<metadata, files, dataVars, requests, shown, clicks, start, end,
                 cat, restaurants, retry, tasks, consumed, histVars>>

\* Lines 388-400: the rendered restaurants (the wait raises when there is
\* none), end, and one task per index of range(start, end).
\* range(start, end), as positions of the list counted from 1.
RangeFromZero(from, to) == [i \in 1..to |-> i]
Range(from, to) == [i \in 1..(to - from) |-> from + i]

NearDispatch ==
  /\ pc = "near_list"
  /\ IF shown = 0
     THEN /\ pc' = "aborted"
          /\ UNCHANGED <<end, restaurants, tasks, dispatched, log, covered>>
     ELSE LET ix == Range(start, shown)
          IN /\ pc' = "near_join"
             /\ restaurants' = SubSeq(NearestList, 1, shown)
             /\ end' = shown
             /\ tasks' = [i \in DOMAIN ix |-> ExtractTask(NearestList[ix[i]])]
             /\ dispatched' = dispatched \cup
                  {<<0, NearestList[ix[i]].href>> : i \in DOMAIN ix}
             /\ log' = Push(log, << Ev("near_batch", ix) >>)
             /\ covered' = covered \cup {ix[i] : i \in DOMAIN ix}
  /\ consumed' = {}
  /\ UNCHANGED <<metadata, files, dataVars, requests, shown, clicks, no_error,
                 start, button, cat, retry, failures, retried, processed>>

\* Lines 401-402 and 472-473: the loop over futures.wait(...).done, a set, in
\* any order: result() returns the task's list or raises what the task raised,
\* which nothing in extract_data or run catches.
ConsumeResult(t) ==
  /\ pc \in {"near_join", "cat_join"}
  /\ AllDone
  /\ t \in DOMAIN tasks \ consumed
  /\ IF tasks[t].pc = "raised"
     THEN /\ pc' = "aborted"
          /\ UNCHANGED <<_products, consumed>>
     ELSE /\ _products' = _products \o tasks[t].result
          /\ consumed' = consumed \cup {t}
          /\ pc' = pc
  /\ UNCHANGED <<metadata, files, _restaurants, _links_to_go, _dataset, requests,
                 shown, clicks, nearVars, cat, restaurants, retry, tasks, histVars>>

\* Lines 403-410: clear the capture and click load-more; a failed click, or
\* button never assigned, ends the loop. The loop also ends when the button
\* was not found, whatever the click on the old button does.
ClickThenClear == <<Nav, Clear>>
ClearThenClick == <<Clear, Nav>>

NearClick ==
  /\ pc = "near_join"
  /\ AllDone
  /\ consumed = DOMAIN tasks
  /\ requests' = {}
  /\ \E clicked \in BOOLEAN :
       IF clicked /\ button = "bound" /\ clicks < MaxClicks
       THEN /\ start' = end
            /\ clicks' = clicks + 1
            /\ shown' = Rendered(shown + PageSize)
            /\ no_error' = no_error
            /\ pc' = IF no_error THEN "near_button" ELSE "categories"
            /\ log' = Push(log, ClearThenClick)
       ELSE /\ no_error' = FALSE
            /\ pc' = "categories"
            /\ log' = Push(log, <<Clear>>)
            /\ UNCHANGED <<start, clicks, shown>>
  /\ tasks' = <<>>
  /\ consumed' = {}
  /\ UNCHANGED <<metadata, files, dataVars, end, button, cat, restaurants, retry,
                 dispatched, failures, retried, processed, covered>>

\* Lines 417-425: reload the listing, clear the capture, find the categories.
CategoriesOpen ==
  /\ pc = "categories"
  /\ \E ok \in BOOLEAN :
       IF ok
       THEN /\ pc' = "cat_loop"
            /\ requests' = {}
            /\ cat' = 1
            /\ log' = Push(log, <<Nav, Clear>>)
       ELSE /\ pc' = "aborted"
            /\ UNCHANGED <<requests, cat, log>>
  /\ UNCHANGED <<metadata, files, dataVars, shown, clicks, nearVars, restaurants,
                 retry, tasks, consumed, dispatched, failures, retried, processed, covered>>

\* Lines 455-459: the restaurants whose href is not in _restaurants.
FilterNothing(listing, seen) == listing
FilterVisited(listing, seen) ==
  LET keep == [i \in 1..Len(listing) |-> listing[i].href \notin seen]
      RECURSIVE Pick(_)
      Pick(i) == IF i > Len(listing) THEN <<>>
                 ELSE (IF keep[i] THEN <<listing[i]>> ELSE <<>>) \o Pick(i + 1)
  IN Pick(1)

\* Lines 426-471, one category: a click that fails or a listing that does not
\* render goes on to the next category; otherwise the listing is filtered, the
\* capture cleared and one task submitted per restaurant left.
\* Lines 440 and 466, continue: the loop goes on with the next category.
ContinueEndsLoop(c) == Len(Categories) + 1
Continue(c) == c + 1

CategoryNext ==
  /\ pc = "cat_loop"
  /\ cat <= Len(Categories)
  /\ \E outcome \in {"click_fails", "no_listing", "listed"} :
       IF outcome = "listed"
       THEN LET rs == FilterVisited(Categories[cat], _restaurants)
            IN /\ restaurants' = rs
               /\ requests' = {}
               /\ tasks' = [i \in 1..Len(rs) |-> ExtractTask(rs[i])]
               /\ dispatched' = dispatched \cup {<<cat, rs[i].href>> : i \in 1..Len(rs)}
               /\ log' = Push(log, <<Nav, Clear, Ev("cat_batch", <<cat, Len(rs)>>)>>)
               /\ pc' = "cat_join"
               /\ cat' = cat
       ELSE /\ cat' = Continue(cat)
            /\ pc' = pc
            /\ log' = IF outcome = "no_listing" THEN Push(log, <<Nav>>) ELSE log
            /\ UNCHANGED <<restaurants, requests, tasks, dispatched>>
  /\ consumed' = {}
  /\ UNCHANGED <<metadata, files, dataVars, shown, clicks, nearVars, retry,
                 failures, retried, processed, covered>>

\* Line 474, after the category's results: clear the capture, next category.
CategoryDone ==
  /\ pc = "cat_join"
  /\ AllDone
  /\ consumed = DOMAIN tasks
  /\ requests' = {}
  /\ cat' = cat + 1
  /\ pc' = "cat_loop"
  /\ tasks' = <<>>
  /\ consumed' = {}
  /\ log' = Push(log, <<Clear>>)
  /\ UNCHANGED <<metadata, files, dataVars, shown, clicks, nearVars, restaurants,
                 retry, dispatched, failures, retried, processed, covered>>

\* Line 477: list(set(self._links_to_go)), the entries the for loop of line
\* 480 goes through, in the set's order.
DedupNothing(entries) == entries
Dedup(entries) == SetToBag(BagToSet(entries))

RetryDedup ==
  /\ pc = "cat_loop"
  /\ cat > Len(Categories)
  /\ _links_to_go' = Dedup(_links_to_go)
  /\ retry' = Dedup(_links_to_go)
  /\ pc' = "retry_loop"
  /\ UNCHANGED <<metadata, files, _products, _restaurants, _dataset, requests,
                 shown, clicks, nearVars, cat, restaurants, tasks, consumed, histVars>>

\* Lines 480-482 and scrap_restaurante (269-296) for one entry: clear the
\* capture, load the restaurant's page, find its products and category, and
\* submit one scrap_product per product. A failure is caught at line 299.
RetryNext(entry) ==
  /\ pc = "retry_loop"
  /\ BagIn(entry, retry)
  /\ retry' = retry (-) SetToBag({entry})
  /\ retried' = Append(retried, entry)
  /\ requests' = {}
  /\ \E loaded \in BOOLEAN :
       IF loaded
       THEN /\ tasks' = [i \in 1..Len(DomProducts(entry[2])) |->
                           ProductTask(DomProducts(entry[2])[i], entry[1], entry[3],
                                       DomCategory(entry[2]))]
            /\ log' = Push(log, <<Clear, Nav,
                                      Ev("retry_batch", <<Len(retried) + 1,
                                                          Len(DomProducts(entry[2]))>>)>>)
            /\ pc' = "retry_join"
       ELSE /\ tasks' = <<>>
            /\ log' = Push(log, <<Clear>>)
            /\ pc' = pc
  /\ consumed' = {}
  /\ UNCHANGED <<metadata, files, dataVars, shown, clicks, nearVars, cat,
                 restaurants, dispatched, failures, processed, covered>>

\* Lines 297-298: self._products.append(future_product.result()), in the
\* order of the set futures.wait(...).done.
AppendProduct(t) ==
  /\ pc = "retry_join"
  /\ AllDone
  /\ t \in DOMAIN tasks \ consumed
  /\ _products' = Append(_products, tasks[t].result)
  /\ consumed' = consumed \cup {t}
  /\ UNCHANGED <<pc, metadata, files, _restaurants, _links_to_go, _dataset,
                 requests, shown, clicks, nearVars, cat, restaurants, retry, tasks,
                 histVars>>

\* scrap_restaurante returns: the next entry of the loop.
RetryDone ==
  /\ pc = "retry_join"
  /\ AllDone
  /\ consumed = DOMAIN tasks
  /\ pc' = "retry_loop"
  /\ tasks' = <<>>
  /\ consumed' = {}
  /\ UNCHANGED <<metadata, files, dataVars, requests, shown, clicks, nearVars,
                 cat, restaurants, retry, histVars>>

\* Line 483: extract_data returns, run goes on to process_data.
ExtractReturn ==
  /\ pc = "retry_loop"
  /\ retry = EmptyBag
  /\ pc' = "process_data"
  /\ UNCHANGED <<metadata, files, dataVars, requests, shown, clicks, nearVars,
                 cat, restaurants, retry, tasks, consumed, histVars>>

\* ------------------------------------------------- process_data (485-553)
process_data ==
  /\ pc = "process_data"
  /\ _dataset' = ProcessData(_dataset, _products).dataset
  /\ _products' = ProcessData(_dataset, _products).products
  /\ pc' = "save_data"
  /\ UNCHANGED <<metadata, files, _restaurants, _links_to_go, requests, shown,
                 clicks, nearVars, cat, restaurants, retry, tasks, consumed, histVars>>

\* ---------------------------------------------------- save_data (555-595)
\* Line 565: nothing is saved when the dataset has no row.
NothingToSaveNever(dataset) == FALSE
NothingToSave(dataset) == Len(dataset) = 0

\* Line 571: the record count is len(self._dataset), the rows without the
\* header line of the file.
QuantityWithHeader(dataset) == Len(dataset) + 1
Quantity(dataset) == Len(dataset)

save_data ==
  /\ pc = "save_data"
  /\ IF NothingToSave(_dataset)
     THEN UNCHANGED <<metadata, files>>
     ELSE /\ metadata' = [metadata EXCEPT !.quantity = Quantity(_dataset)]
          /\ files' = [files EXCEPT !.data = Append(@, [rows |-> Len(_dataset)])]
  /\ pc' = "save_metadata"
  /\ UNCHANGED <<dataVars, requests, shown, clicks, nearVars, cat, restaurants,
                 retry, tasks, consumed, histVars>>

\* ------------------------------------------------ save_metadata (597-645)
\* set_attributes_values, then one row appended to the workbook.
save_metadata ==
  /\ pc = "save_metadata"
  /\ metadata' = [metadata EXCEPT !.finalized = @ + 1]
  /\ files' = [files EXCEPT !.report =
                 Append(@, [quantity |-> metadata.quantity,
                            num_errors |-> metadata.num_errors])]
  /\ pc' = "done"
  /\ UNCHANGED <<dataVars, requests, shown, clicks, nearVars, cat, restaurants,
                 retry, tasks, consumed, histVars>>

\* ------------------------------------------------------------- the run
\* main (688-699): run's steps in order; an exception of any of them ends in
\* the except block ("aborted"), which logs it, and the finally block.
Next ==
  \/ login
  \/ ExtractOpen
  \/ NearButton
  \/ NearDispatch
  \/ \E t \in DOMAIN tasks : TaskStart(t)
  \/ \E t \in DOMAIN tasks : TaskWait(t)
  \/ \E t \in DOMAIN tasks : HandlerRead(t)
  \/ \E t \in DOMAIN tasks : HandlerWrite(t)
  \/ \E t \in DOMAIN tasks : ConsumeResult(t)
  \/ NearClick
  \/ CategoriesOpen
  \/ CategoryNext
  \/ CategoryDone
  \/ RetryDedup
  \/ \E entry \in BagToSet(retry) : RetryNext(entry)
  \/ \E t \in DOMAIN tasks : ProductStart(t)
  \/ \E t \in DOMAIN tasks : ScrapProduct(t)
  \/ \E t \in DOMAIN tasks : AppendProduct(t)
  \/ RetryDone
  \/ ExtractReturn
  \/ process_data
  \/ save_data
  \/ save_metadata

Spec == Init /\ [][Next]_vars

\* ---------------------------------------- process_data on any product list
\* The rows the accumulator may hold: products of one name read from the
\* network (numbers) or from the DOM (texts), of restaurants whose names
\* differ in their " - ..." suffix only, with and without a description.
Variants ==
  {[con |-> Num(10504), sin |-> Num(10500), disp |-> "Abre a las 18:00",
    cat |-> Str("Pollo - Broaster")],
   [con |-> Str(""), sin |-> Str("8.90"), disp |-> "Restaurante abierto",
    cat |-> Null]}
RowUniverse ==
  {<<Bool(p), Str("Mega"), d, v.con, v.sin, Str(r), Str(v.disp), v.cat>> :
     p \in BOOLEAN, d \in {Str(""), Str("8 piezas")},
     r \in {"KFC - Centro", "KFC - Norte"}, v \in Variants}

InitNorm ==
  /\ pc = "process_data"
  /\ metadata = [num_errors |-> 0, quantity |-> 0, finalized |-> 0]
  /\ files = [data |-> <<>>, report |-> <<>>]
  /\ _products \in UNION {[1..k -> RowUniverse] : k \in 0..MaxRows}
  /\ _restaurants = {}
  /\ _links_to_go = EmptyBag
  /\ _dataset = <<>>
  /\ requests = {}
  /\ shown = 0
  /\ clicks = 0
  /\ no_error = FALSE
  /\ start = 0
  /\ end = 0
  /\ button = "unbound"
  /\ cat = Len(Categories) + 1
  /\ restaurants = <<>>
  /\ retry = EmptyBag
  /\ tasks = <<>>
  /\ consumed = {}
  /\ dispatched = {}
  /\ failures = 0
  /\ log = <<>>
  /\ covered = {}
  /\ retried = <<>>
  /\ processed = {}

NextNorm == process_data \/ save_data \/ save_metadata

SpecNorm == InitNorm /\ [][NextNorm]_vars

\* ================================================================ claims
Joined == pc \in {"near_join", "cat_join"} /\ AllDone
Ended == pc \in {"done", "aborted"}

\* C1: a failure at any point of extract_products is caught inside the task,
\* which returns an empty result: no exception escapes a task to the loop of
\* extract_data over the batch's futures.
C1_NoExceptionEscapesATask ==
  \A t \in DOMAIN tasks : tasks[t].kind = "extract" => tasks[t].pc # "raised"

\* C2: no result of a batch is consumed before every task of the batch is
\* done, and once the driver has left the batch every task that returned a
\* result has had it added to the accumulator (exactly once: consumed is the
\* set of futures the loop has been through).
C2_BatchJoinedAndEveryResultAdded ==
  /\ consumed # {} => AllDone
  /\ pc \notin {"near_join", "cat_join", "retry_join"} =>
       \A t \in DOMAIN tasks : tasks[t].pc = "returned" => t \in consumed

\* C3: every failed task appends exactly one entry to the retry queue and a
\* successful one none: at every join the queue holds as many entries as
\* tasks have failed so far.
C3_OneRetryEntryPerFailure ==
  Joined => BagCardinality(_links_to_go) = failures

\* C4: at every join the error counter equals the number of tasks that have
\* failed so far, whatever the interleaving of the increments (stated for the
\* batches all of whose failed tasks returned).
NoTaskRaised == \A t \in DOMAIN tasks : tasks[t].pc # "raised"
C4_ErrorCountIsFailures ==
  (Joined /\ NoTaskRaised) => metadata.num_errors = failures

\* C5: a link dispatched in the nearest phase (phase 0) or in a category is
\* never dispatched again in a later category.
C5_NoRedispatchInLaterCategory ==
  \A d1 \in dispatched, d2 \in dispatched :
    (d1[2] = d2[2] /\ d2[1] >= 1) => d1[1] = d2[1]

\* C5, its case: the first category lists a restaurant dispatched in the
\* nearest phase, and its batch leaves that restaurant out.
C5_Witness ==
  /\ pc = "cat_join"
  /\ cat = 1
  /\ <<0, KFC.href>> \in dispatched
  /\ <<1, Norkys.href>> \in dispatched
  /\ \A i \in 1..Len(restaurants) : restaurants[i].href # KFC.href

\* C6: every run writes its report: when main ends, whether run returned or
\* raised, save_metadata has appended the run's row.
C6_ReportOnEveryPath ==
  Ended => Len(files.report) = 1

\* C7, as claimed: when the run ends, a data file has been written if and
\* only if at least one record was extracted.
HasRecord(rows) == \E i \in 1..Len(rows) : Len(rows[i]) > 0
C8_NoTwoRowsShareTheTriple ==
  pc = "save_data" =>
    \A i \in 1..Len(_dataset), j \in 1..Len(_dataset) :
      i # j => DupKey(_dataset[i]) # DupKey(_dataset[j])

\* C9: of the records of the accumulator that share their (restaurant, name,
\* description), process_data keeps exactly one row, and a popular one when
\* one of them is popular, in whatever order they were accumulated. A row of
\* the dataset is traced to its record by its index label.
RawKey(row) == <<row[6], row[2], row[3]>>
Group(rows, i) == {j \in 1..Len(rows) : RawKey(rows[j]) = RawKey(rows[i])}
C9_OnePerKeyAndPopularWins ==
  [][pc = "process_data" =>
       \A i \in 1..Len(_products) :
         LET kept == {k \in 1..Len(_dataset') :
                        _dataset'[k].idx + 1 \in Group(_products, i)}
         IN /\ Cardinality(kept) = 1
            /\ (\E j \in Group(_products, i) : _products[j][1] = Bool(TRUE)) =>
                 \A k \in kept :
                   /\ _products[_dataset'[k].idx + 1][1] = Bool(TRUE)
                   /\ _dataset'[k].Popular = Str("popular")]_vars

\* C9, its case: of two records with one key the second, the popular one, is
\* the row that was kept.
C9_Witness ==
  /\ pc = "save_data"
  /\ Len(_dataset) = 1
  /\ _dataset[1].idx = 1
  /\ _dataset[1].Popular = Str("popular")

\* C10: process_data applied to the dataset it left (its eight columns, as a
\* product list) leaves the same rows: none removed, no field changed.
ValueRows(ds) ==
  [i \in 1..Len(ds) |->
     <<ds[i].Popular, ds[i].Producto, ds[i].Descripcion, ds[i].PrecioCon,
       ds[i].PrecioSin, ds[i].Restaurante, ds[i].Disponible, ds[i].Categoria>>]
C10_Idempotent ==
  pc = "save_data" =>
    ValueRows(ProcessData(<<>>, ValueRows(_dataset)).dataset) = ValueRows(_dataset)

\* C11: the loop of the nearest phase is left exactly when the load-more
\* button was not located or its click failed, i.e. with no_error FALSE
\* (stated for the steps taken while no task has raised).
NearLoop == {"near_button", "near_list", "near_join"}
C11_LoopLeftOnTerminalConditionOnly ==
  [][(pc \in NearLoop /\ pc' \notin NearLoop /\ NoTaskRaised) => ~no_error']_vars

\* C12: the retry phase starts after the last category (no extraction task is
\* left); each distinct entry of the queue is retried exactly once; and an
\* entry's product tasks have all finished and been consumed before the next
\* entry is taken: an unfinished product task belongs to the entry retried
\* last, and the loop takes an entry only when no task is unfinished.
RetryPhase == pc \in {"retry_loop", "retry_join"}
AfterRetry == pc \in {"process_data", "save_data", "save_metadata", "done"}
Distinct(seq) == \A i, j \in 1..Len(seq) : i # j => seq[i] # seq[j]
SeqRange(seq) == {seq[i] : i \in 1..Len(seq)}
C12_RetryAfterBatchesOncePerEntryInTurn ==
  /\ (RetryPhase \/ Len(retried) > 0) =>
       /\ cat > Len(Categories)
       /\ \A t \in DOMAIN tasks : tasks[t].kind = "product"
  /\ Distinct(retried)
  /\ RetryPhase => SeqRange(retried) \cup BagToSet(retry) = BagToSet(_links_to_go)
  /\ AfterRetry => SeqRange(retried) = BagToSet(_links_to_go)
  /\ pc = "retry_loop" => \A t \in DOMAIN tasks : Finished(t) /\ t \in consumed
  /\ \A t \in DOMAIN tasks :
       tasks[t].kind = "product" =>
         /\ pc = "retry_join"
         /\ Len(retried) > 0
         /\ tasks[t].elem.label = retried[Len(retried)][1]
         /\ tasks[t].elem.status = retried[Len(retried)][3]
         /\ t \in consumed => Finished(t)

\* C12, its case: three tasks failed, two of them for the same (name, link,
\* status), and the two distinct entries have each been retried.
C12_Witness ==
  /\ pc = "process_data"
  /\ Len(retried) = 2
  /\ failures = 3

\* C13: a record whose discounted price, rounded to 2 decimals, equals its
\* list price has a null discounted price in the row process_data leaves for
\* it (the comparison is the code's: the rounded discounted price against the
\* list price as parsed).
C13_EqualPricesLeaveNull ==
  [][pc = "process_data" =>
       \A k \in 1..Len(_dataset') :
         LET r == _products[_dataset'[k].idx + 1]
         IN (r[4].t = "num" /\ r[5].t = "num" /\ Round2(r[4].n) = r[5].n) =>
              _dataset'[k].PrecioCon = Null]_vars

\* C14: a category whose click fails or whose listing does not render is
\* skipped and nothing else: the loop goes on to the next category, with no
\* task submitted and the visited set, the accumulator, the retry queue and
\* the error counter as they were; and the category loop is left only after
\* the last category.
C14_SkippedCategoryOnly ==
  /\ [][(pc = "cat_loop" /\ pc' = "cat_loop") =>
          /\ cat' = cat + 1
          /\ UNCHANGED <<_restaurants, _products, _links_to_go, metadata, tasks,
                         dispatched, failures>>]_vars
  /\ [][(pc = "cat_loop" /\ pc' = "retry_loop") => cat = Len(Categories) + 1]_vars

\* C14, its case: the first category was skipped after records were
\* accumulated, and the second category's batch has been submitted.
C14_Witness ==
  /\ pc = "cat_join"
  /\ cat = 2
  /\ \A d \in dispatched : d[1] # 1
  /\ Len(_products) > 0
  /\ Len(tasks) = 3

\* Where the log holds the submission of a batch.
BatchAt == {i \in 1..Len(log) : IsBatch(log[i])}

\* C15: a batch of the nearest phase covers the positions start + 1 .. end
\* of the listing, none of which an earlier batch of the phase covered, and
\* start moves only to end and only with a click that went through.
C15_NearestBatchesDisjoint ==
  /\ [][(pc = "near_list" /\ pc' = "near_join") =>
          LET ix == log'[Len(log')].ix
          IN /\ log'[Len(log')].e = "near_batch"
             /\ SeqRange(ix) = (start + 1)..end'
             /\ \A i \in 1..Len(tasks') : tasks'[i].elem = NearestList[ix[i]]
             /\ SeqRange(ix) \cap covered = {}
             /\ covered' = covered \cup SeqRange(ix)]_vars
  /\ [][start' # start => (start' = end /\ clicks' = clicks + 1)]_vars

\* C15, its case: after a click the second batch covers the second position
\* only, the first batch having covered the first.
C15_Witness ==
  /\ pc = "near_join"
  /\ covered = {1, 2}
  /\ start = 1
  /\ Len(tasks) = 1
  /\ \E i, j \in BatchAt : i < j /\ log[i].ix = <<1>> /\ log[j].ix = <<2>>

\* C16: between the submissions of two consecutive batches (of the nearest
\* phase, of a category, of a retried restaurant) the driver navigates, and
\* it has cleared the capture after the earlier batch and before the last
\* navigation that precedes the later one.
C16_ClearedBeforeNavigationBetweenBatches ==
  \A i, j \in BatchAt :
    (i < j /\ \A m \in BatchAt : ~(i < m /\ m < j)) =>
      \E n \in (i + 1)..(j - 1) :
        /\ log[n].e = "nav"
        /\ \A m \in (n + 1)..(j - 1) : log[m].e # "nav"
        /\ \E k \in (i + 1)..(n - 1) : log[k].e = "clear"

\* C16, its case: a retried restaurant's batch has been submitted after a
\* category's batch, in a run that had gone through the load-more click.
C16_Witness ==
  /\ clicks > 0
  /\ \E i, j \in BatchAt :
       i < j /\ log[i].e = "cat_batch" /\ log[j].e = "retry_batch"

\* C17: a step that clears the capture is taken only when no extraction task
\* is queued, waiting for its request or in its handler: every task of the
\* batch has finished.
Appended(l, l2) ==
  IF l2 = l THEN <<>>
  ELSE IF IsBatch(l2[Len(l2)])
       THEN SubSeq(l2, Len(l) - LastBatch(l) + 2, Len(l2))
       ELSE SubSeq(l2, Len(l) + 1, Len(l2))
C17_NoClearWhileTaskInFlight ==
  [][(\E k \in DOMAIN Appended(log, log') : Appended(log, log')[k] = Clear) =>
       \A t \in DOMAIN tasks : tasks[t].kind = "extract" => Finished(t)]_vars

\* C17, its case: the capture has been cleared after a batch in which a
\* task had waited for its request and timed out.
C17_Witness ==
  /\ pc = "cat_loop"
  /\ failures > 0
  /\ Len(log) > 0
  /\ log[Len(log)].e = "clear"

\* C18: at most MaxWorkers tasks run at a time, in the extraction batches and
\* in the product tasks of a retry; a queued task is taken as soon as a
\* thread is free; and as long as a task of the batch is unfinished the
\* driver stays at the join with the batch as it is, so every task is run
\* before the driver goes on.
C18_PoolBoundsRunningTasks ==
  /\ [](Cardinality(Running) <= MaxWorkers)
  /\ []((Queued # {} /\ Cardinality(Running) < MaxWorkers) =>
          \E t \in Queued :
            /\ MayStart(t)
            /\ tasks[t].kind = "extract" => pc \in {"near_join", "cat_join"}
            /\ tasks[t].kind = "product" => pc = "retry_join")
  /\ [][(\E t \in DOMAIN tasks : ~Finished(t)) =>
          /\ pc' = pc
          /\ DOMAIN tasks' = DOMAIN tasks
          /\ \A t \in DOMAIN tasks : tasks'[t].elem = tasks[t].elem]_vars

\* C18, its case: a batch of three tasks, two of them running and the third
\* waiting in the queue.
C18_Witness ==
  /\ Len(tasks) = 3
  /\ Cardinality(Running) = MaxWorkers
  /\ Queued # {}

\* C19, as claimed: no restaurant link is retried more than once.
C19_NoLinkRetriedTwice ==
  \A i, j \in 1..Len(retried) : i # j => retried[i][2] # retried[j][2]

\* C20: the visited set holds only links of restaurants that were
\* successfully processed: when no task is unfinished, every link of
\* _restaurants is the link of a task that returned its decoded products.
C20_VisitedHoldsProcessedOnly ==
  (\A t \in DOMAIN tasks : Finished(t)) => _restaurants \subseteq processed

\* C21: a task whose response did not arrive (its link was read, the capture
\* does not hold its request, it is done and its result is empty) ended as a
\* failure: at the join its entry is in
\* the retry queue and the error counter has counted every such task of the
\* batch.
TimedOut(t) ==
  /\ tasks[t].kind = "extract"
  /\ tasks[t].link_bound
  /\ LinkSuffix(tasks[t].elem.href) \notin requests
  /\ tasks[t].pc = "returned"
  /\ tasks[t].result = <<>>
C21_TimedOutTaskEndsAsCountedFailure ==
  Joined =>
    /\ \A t \in DOMAIN tasks :
         TimedOut(t) =>
           BagIn(<<tasks[t].elem.label, tasks[t].elem.href, tasks[t].status>>,
                 _links_to_go)
    /\ Cardinality({t \in DOMAIN tasks : TimedOut(t)}) <= metadata.num_errors

\* C22: the nearest phase is left (for the categories) only with every
\* position of the listing rendered at its last batch covered: the batches
\* have covered 1 .. end and end is the number of entries rendered; each
\* batch covers the positions from the last one covered to the last one
\* rendered, once each, also in the iteration in which the button was not
\* found.
C22_NearestPhaseCoversRendered ==
  [][/\ (pc \in NearLoop /\ pc' = "categories") =>
          (covered = 1..shown /\ end = shown)
     /\ (pc = "near_list" /\ pc' = "near_join") =>
          /\ covered = 1..start
          /\ Len(tasks') = shown - start
          /\ covered' = 1..shown]_vars

\* C22, its case: the button was never found, the first slice was dispatched
\* all the same, and the phase has ended.
C22_Witness ==
  /\ pc = "categories"
  /\ button = "unbound"
  /\ covered = {1}
  /\ end = 1
  /\ <<0, KFC.href>> \in dispatched

\* C23: the retry phase is one bounded pass: none of its steps changes the
\* retry queue, the visited set or the error counter or submits an extraction
\* task; no restaurant link is handed to the DOM fallback twice; and the
\* phase is left after as many calls of scrap_restaurante as the
\* deduplicated queue has entries.
C23_RetryIsOneBoundedPass ==
  [][/\ RetryPhase =>
          /\ UNCHANGED <<_links_to_go, _restaurants, dispatched>>
          /\ metadata'.num_errors = metadata.num_errors
          /\ \A t \in DOMAIN tasks' : tasks'[t].kind = "product"
     /\ \A i, j \in 1..Len(retried') :
          i # j => retried'[i][2] # retried'[j][2]
     /\ (RetryPhase /\ pc' = "process_data") =>
          Len(retried) = Cardinality(BagToSet(_links_to_go))]_vars

\* C24: every element of the accumulator handed to process_data is a record
\* of 8 fields.
C24_AccumulatorHoldsCompleteRecords ==
  pc = "process_data" => \A i \in 1..Len(_products) : Len(_products[i]) = 8

\* C25: the report is written by save_metadata only, once, as the last step
\* of run (after save_data): the row it writes carries the number of rows of
\* the dataset when this run wrote a data file and 0 when it wrote none, and
\* set_attributes_values has run exactly once, in that same step.
C25_ReportCountsTheDatasetWritten ==
  [][/\ files'.report # files.report =>
          /\ pc = "save_metadata"
          /\ files.report = <<>>
          /\ Len(files'.report) = 1
          /\ files'.report[1].quantity =
               (IF Len(files.data) = 1 THEN Len(_dataset) ELSE 0)
          /\ Len(files.data) = 1 => files.data[1].rows = Len(_dataset)
          /\ metadata.finalized = 0
          /\ metadata'.finalized = 1
     /\ metadata'.finalized # metadata.finalized =>
          files'.report # files.report]_vars

\* C25, its case: a run has ended whose data file holds one row and whose
\* report row counts one record.
C25_Witness ==
  /\ pc = "done"
  /\ metadata.finalized = 1
  /\ Len(files.data) = 1
  /\ Len(_dataset) = 1
  /\ Len(files.report) = 1
  /\ files.report[1].quantity = 1

====
